---- MODULE Spec2Model ----
(***************************************************************************)
(* The two chatbot scripts of PersonalizedNewsAssistant as one state       *)
(* machine: news_chatbot.py (hand-rolled function-calling dispatcher) and  *)
(* news_agent.py (agent-framework loop).  Every hosted provider (OpenAI    *)
(* chat, OpenAI moderation, NewsAPI, OpenWeatherMap, Yahoo Finance, the    *)
(* agent executor) is an environment whose response is chosen              *)
(* nondeterministically in the step that calls it.                         *)
(*                                                                         *)
(* Text the code inspects character by character (input lines, provider    *)
(* completions, commodity names) is a sequence of one-character strings;   *)
(* text the code only stores, compares or concatenates is a string.        *)
(* Python's None is the string NoneVal, which is also how an f-string      *)
(* renders it.                                                             *)
(***************************************************************************)
EXTENDS Integers, Sequences, FiniteSets, TLC

NoneVal == "None"

(***************************************************************************)
(* Bounds of the model.                                                    *)
(***************************************************************************)
MaxTurns == 2            \* input lines read in one session
MaxArticles == 2         \* articles in one NewsAPI /everything response
MaxHeadlines == 11       \* articles in one NewsAPI /top-headlines response

(***************************************************************************)
(* str.strip(), str.lower(), str.title() and str.join on character         *)
(* sequences.                                                              *)
(***************************************************************************)
UpperChars == <<"A","B","C","D","E","F","G","H","I","J","K","L","M",
                "N","O","P","Q","R","S","T","U","V","W","X","Y","Z">>

LowerChars == <<"a","b","c","d","e","f","g","h","i","j","k","l","m",
                "n","o","p","q","r","s","t","u","v","w","x","y","z">>

Whitespace == {" ", "\t", "\n", "\r"}

IsUpper(c) == \E i \in DOMAIN UpperChars : UpperChars[i] = c

IsLower(c) == \E i \in DOMAIN LowerChars : LowerChars[i] = c

LowerChar(c) ==
    IF IsUpper(c)
    THEN LowerChars[CHOOSE i \in DOMAIN UpperChars : UpperChars[i] = c]
    ELSE c

UpperChar(c) ==
    IF IsLower(c)
    THEN UpperChars[CHOOSE i \in DOMAIN LowerChars : LowerChars[i] = c]
    ELSE c

lower(s) == [i \in DOMAIN s |-> LowerChar(s[i])]

\* str.title(): a cased character is upper-cased when it follows an uncased
\* one (or starts the string) and lower-cased otherwise
str_title(s) ==
    [i \in DOMAIN s |->
        IF i = 1 \/ ~(IsUpper(s[i-1]) \/ IsLower(s[i-1]))
        THEN UpperChar(s[i])
        ELSE LowerChar(s[i])]

RECURSIVE lstrip(_)
lstrip(s) ==
    IF s # <<>> /\ Head(s) \in Whitespace THEN lstrip(Tail(s)) ELSE s

RECURSIVE rstrip(_)
rstrip(s) ==
    IF s # <<>> /\ s[Len(s)] \in Whitespace
    THEN rstrip(SubSeq(s, 1, Len(s) - 1))
    ELSE s

strip(s) == rstrip(lstrip(s))

\* the string a character sequence spells
RECURSIVE Str(_)
Str(s) == IF s = <<>> THEN "" ELSE Head(s) \o Str(Tail(s))

\* sep.join(items) for a sequence of strings
RECURSIVE join(_, _)
join(sep, items) ==
    IF items = <<>> THEN ""
    ELSE IF Len(items) = 1 THEN items[1]
    ELSE items[1] \o sep \o join(sep, Tail(items))

\* Python truthiness of an optional string
Truthy(text) == text # NoneVal /\ text # ""

(***************************************************************************)
(* Environment: credentials read at start-up (news_chatbot.py:20-22).      *)
(***************************************************************************)
NEWSAPI_API_KEY == "news-key"

OPENWEATHER_API_KEY == "weather-key"

(***************************************************************************)
(* check_moderation (news_chatbot.py:31-55).  response is what             *)
(* client.moderations.create does: it raises, or returns results (an empty *)
(* list makes results[0] raise inside the try).                            *)
(* categories is the dict of the flagged categories, as the sequence of    *)
(* its keys in model_dump order.  raised says whether the call raised to   *)
(* its caller.                                                             *)
(***************************************************************************)
CategoryNames == <<"hate", "violence">>

ModerationResponses ==
    { [kind |-> "raise", results |-> <<>>],
      [kind |-> "ok", results |->
          << [flagged |-> FALSE,
              categories |-> [c \in {"hate", "violence"} |-> FALSE]] >>],
      [kind |-> "ok", results |->
          << [flagged |-> TRUE,
              categories |-> [c \in {"hate", "violence"} |-> c = "hate"]] >>],
      [kind |-> "ok", results |->
          << [flagged |-> TRUE,
              categories |-> [c \in {"hate", "violence"} |-> TRUE]] >> ] }

\* the moderation provider call failed: the request raised or the response
\* carried no result
ModerationFailed(response) ==
    response.kind = "raise" \/ (response.kind = "ok" /\ response.results = <<>>)

\* faulty variant: no try/except around the provider call
check_moderation_raises(text, response) ==
    IF ModerationFailed(response)
    THEN [raised |-> TRUE, flagged |-> FALSE, categories |-> <<>>]
    ELSE LET results == response.results[1]
         IN  [raised |-> FALSE,
              flagged |-> results.flagged,
              categories |->
                  SelectSeq(CategoryNames,
                            LAMBDA cat : results.categories[cat])]

check_moderation(text, response) ==
    IF ModerationFailed(response)
    THEN [raised |-> FALSE, flagged |-> FALSE, categories |-> <<>>]
    ELSE LET results == response.results[1]
         IN  [raised |-> FALSE,
              flagged |-> results.flagged,
              categories |->
                  SelectSeq(CategoryNames,
                            LAMBDA cat : results.categories[cat])]

(***************************************************************************)
(* A chat completion used as a text generator (summaries, translations,    *)
(* the commodity rendering): the call raises, or returns a message whose   *)
(* content is None or a text.                                              *)
(***************************************************************************)
CompletionResponses ==
    { [kind |-> "raise", content |-> <<>>],
      [kind |-> "none", content |-> <<>>],
      [kind |-> "ok", content |-> <<" ", " ">>],
      [kind |-> "ok", content |-> <<" ", "H", "o", "l", "a", "\n">>] }

\* the responses of the successive completion calls of one tool turn: call
\* number k gets CallResponse(script, k)
CompletionScripts ==
    { << r, r >> : r \in CompletionResponses }
    \cup { << [kind |-> "ok", content |-> <<" ", "H", "o", "l", "a", "\n">>],
            [kind |-> "raise", content |-> <<>>] >> }

CallResponse(script, k) == script[((k - 1) % Len(script)) + 1]

\* dict.get(key, default)
Get(d, key, default) == IF key \in DOMAIN d THEN d[key] ELSE default

\* str(e) of a transport failure (requests.RequestException, openai error)
ProviderError == "Connection error."

\* an entry of the call log: the function called, its argument, what it
\* returned and whether the provider request behind it failed
Call(fn, arg, res, failed) ==
    [fn |-> fn, arg |-> arg, res |-> res, failed |-> failed]

(***************************************************************************)
(* fetch_news (news_chatbot.py:58-101).  response is what requests.get     *)
(* and raise_for_status do: raise, or deliver a JSON object.               *)
(***************************************************************************)
\* the i-th article of a NewsAPI response: with every field, or with a null
\* description and no content
Article(i) ==
    IF i % 2 = 1
    THEN [title |-> "T" \o ToString(i), description |-> "D" \o ToString(i),
          url |-> "u" \o ToString(i), content |-> "c" \o ToString(i)]
    ELSE [title |-> "T" \o ToString(i), description |-> NoneVal,
          url |-> "u" \o ToString(i)]

\* an article without a title
Untitled == [description |-> "D0", url |-> "u0", content |-> "c0"]

NewsResponses ==
    { [kind |-> "raise", has_articles |-> FALSE, articles |-> <<>>],
      [kind |-> "ok", has_articles |-> FALSE, articles |-> <<>>],
      [kind |-> "ok", has_articles |-> TRUE, articles |-> << Untitled >>] }
    \cup { [kind |-> "ok", has_articles |-> TRUE,
            articles |-> [i \in 1..n |-> Article(i)]] : n \in 0..MaxArticles }

fetch_news(topic, language, page_size, api_key, response) ==
    IF ~Truthy(api_key) THEN <<>>
    ELSE IF response.kind = "raise" THEN <<>>
    ELSE IF ~response.has_articles THEN <<>>
    ELSE response.articles

(***************************************************************************)
(* summarize_article (news_chatbot.py:104-142).                            *)
(***************************************************************************)
summarize_article(article, response) ==
    IF "title" \notin DOMAIN article
    THEN "Error preparing article for summary: "
             \o "\"Article missing required 'title' field\""
    ELSE IF response.kind = "raise"
    THEN "Error generating summary: " \o ProviderError
    ELSE IF response.kind = "none"
    THEN "Error generating summary: "
             \o "'NoneType' object has no attribute 'strip'"
    ELSE Str(strip(response.content))

(***************************************************************************)
(* fetch_and_summarize (news_chatbot.py:145-157).  The k-th article's      *)
(* summary call gets CallResponse(script, k).  article['title'] raises     *)
(* KeyError for an article without a title.                                *)
(***************************************************************************)
RECURSIVE SummarizeAll(_, _, _)
SummarizeAll(articles, script, k) ==
    IF k > Len(articles) THEN [raised |-> FALSE, value |-> <<>>]
    ELSE LET article == articles[k]
             summary == summarize_article(article, CallResponse(script, k))
             rest    == SummarizeAll(articles, script, k + 1)
         IN  IF "title" \notin DOMAIN article
             THEN [raised |-> TRUE, value |-> "'title'"]
             ELSE IF rest.raised THEN rest
             ELSE [raised |-> FALSE,
                   value |-> << [title |-> article.title,
                                 summary |-> summary] >> \o rest.value]

fetch_and_summarize(topic, language, page_size, api_key, response, script) ==
    SummarizeAll(fetch_news(topic, language, page_size, api_key, response),
                 script, 1)

(***************************************************************************)
(* translate_text (news_chatbot.py:159-198).                               *)
(***************************************************************************)
translate_text(text, target_lang, response) ==
    IF ~Truthy(text) THEN text
    ELSE IF ~Truthy(target_lang) THEN text
    ELSE IF response.kind # "ok" THEN text
    ELSE LET translated_text == Str(strip(response.content))
         IN  IF translated_text = "" THEN text ELSE translated_text

(***************************************************************************)
(* get_trending_topics (news_chatbot.py:200-250).                          *)
(***************************************************************************)
TrendingLimit == 10

Headline(i) ==
    CASE i % 4 = 1 -> [title |-> "Headline " \o ToString(i),
                       description |-> "About " \o ToString(i)]
      [] i % 4 = 2 -> [title |-> NoneVal,
                       description |-> "About " \o ToString(i)]
      [] i % 4 = 3 -> [url |-> "h" \o ToString(i)]
      [] OTHER     -> [title |-> "", description |-> NoneVal]

HeadlineResponses ==
    { [kind |-> "raise", status_code |-> 0, has_articles |-> FALSE,
       articles |-> <<>>],
      [kind |-> "ok", status_code |-> 500, has_articles |-> FALSE,
       articles |-> <<>>],
      [kind |-> "ok", status_code |-> 200, has_articles |-> FALSE,
       articles |-> <<>>] }
    \cup { [kind |-> "ok", status_code |-> 200, has_articles |-> TRUE,
            articles |-> [i \in 1..n |-> Headline(i)]] :
               n \in {0, 1, 4, MaxHeadlines} }

get_trending_topics(api_key, response) ==
    IF ~Truthy(api_key) THEN <<>>
    ELSE IF response.kind = "raise" THEN <<>>
    ELSE IF response.status_code # 200 THEN <<>>
    ELSE IF ~response.has_articles THEN <<>>
    ELSE LET articles == response.articles
             trending_topics ==
                 [i \in DOMAIN articles |->
                     LET title == Get(articles[i], "title", NoneVal)
                         description ==
                             Get(articles[i], "description",
                                 "No description available")
                     IN  IF Truthy(title) THEN title ELSE description]
         IN  SubSeq(trending_topics, 1,
                    IF Len(trending_topics) < TrendingLimit
                    THEN Len(trending_topics) ELSE TrendingLimit)

(***************************************************************************)
(* get_commodity_prices (news_chatbot.py:253-315).  A dict is the sequence *)
(* of its entries in insertion order.  Prices are in hundredths (the       *)
(* two decimals round() keeps); the k-th fetched symbol's                  *)
(* ticker.history call gets CallResponse(script, k).                       *)
(***************************************************************************)
available_commodities ==
    << [name |-> <<"G","o","l","d">>,
        symbol |-> "GC=F"],
       [name |-> <<"S","i","l","v","e","r">>,
        symbol |-> "SI=F"],
       [name |-> <<"C","o","p","p","e","r">>,
        symbol |-> "HG=F"],
       [name |-> <<"P","l","a","t","i","n","u","m">>,
        symbol |-> "PL=F"],
       [name |-> <<"P","a","l","l","a","d","i","u","m">>,
        symbol |-> "PA=F"],
       [name |-> <<"C","r","u","d","e"," ","O","i","l">>,
        symbol |-> "CL=F"],
       [name |-> <<"B","r","e","n","t"," ","C","r","u","d","e">>,
        symbol |-> "BZ=F"],
       [name |-> <<"N","a","t","u","r","a","l"," ","G","a","s">>,
        symbol |-> "NG=F"] >>

QuoteResponses ==
    { [kind |-> "raise", open |-> 0, close |-> 0],
      [kind |-> "empty", open |-> 0, close |-> 0],
      [kind |-> "data", open |-> 200000, close |-> 201050],
      [kind |-> "data", open |-> 7500, close |-> 7425] }

QuoteScripts ==
    { << q, q >> : q \in QuoteResponses }
    \cup { << [kind |-> "data", open |-> 200000, close |-> 201050],
            [kind |-> "raise", open |-> 0, close |-> 0] >>,
          << [kind |-> "empty", open |-> 0, close |-> 0],
            [kind |-> "data", open |-> 7500, close |-> 7425] >> }

\* round(n / d) to the nearest integer, ties to even (Python's round), d > 0
RoundHalfEven(n, d) ==
    LET q == n \div d
        r == n % d
    IN  IF 2 * r < d THEN q
        ELSE IF 2 * r > d THEN q + 1
        ELSE IF q % 2 = 0 THEN q ELSE q + 1

RECURSIVE FetchQuotes(_, _, _)
FetchQuotes(commodities_to_fetch, script, k) ==
    IF k > Len(commodities_to_fetch) THEN <<>>
    ELSE LET data == CallResponse(script, k)
             rest == FetchQuotes(commodities_to_fetch, script, k + 1)
             change == data.close - data.open
         IN  IF data.kind # "data" THEN rest
             ELSE << [name |-> Str(commodities_to_fetch[k].name),
                      price |-> data.close,
                      change |-> change,
                      change_percent |->
                          RoundHalfEven(change * 10000, data.open)] >>
                  \o rest

\* news_chatbot.py:276-288
commodities_to_fetch(commodities_list) ==
    IF commodities_list # <<>>
    THEN SelectSeq(available_commodities,
                   LAMBDA entry :
                       \E i \in DOMAIN commodities_list :
                           str_title(entry.name)
                               = str_title(commodities_list[i]))
    ELSE available_commodities

get_commodity_prices(commodities_list, script) ==
    IF commodities_to_fetch(commodities_list) = <<>> THEN <<>>
    ELSE FetchQuotes(commodities_to_fetch(commodities_list), script, 1)

\* the ticker.history calls of one get_commodity_prices call
\* (news_chatbot.py:291-294), one per commodity to fetch
ticker_history_calls(commodities_list, script) ==
    [k \in DOMAIN commodities_to_fetch(commodities_list) |->
        Call("ticker.history",
             Str(commodities_to_fetch(commodities_list)[k].name),
             CallResponse(script, k).kind,
             CallResponse(script, k).kind = "raise")]

(***************************************************************************)
(* get_weather (news_chatbot.py:317-375).  The result is the dict the      *)
(* function returns: a report, or a dict with the single key "error".      *)
(***************************************************************************)
WeatherData ==
    [name |-> "Paris",
     main |-> [temp |-> "21.5", feels_like |-> "20.9", humidity |-> "40"],
     weather |-> << [description |-> <<"c","l","e","a","r"," ","S","k","y">>] >>,
     wind |-> [speed |-> "3.6"],
     dt |-> 3725]

WeatherResponses ==
    { [kind |-> "raise", data |-> [name |-> "Paris"]],
      [kind |-> "ok", data |-> WeatherData],
      [kind |-> "ok", data |-> [f \in {"name", "main", "weather", "dt"}
                                    |-> WeatherData[f]]],
      [kind |-> "ok", data |-> [WeatherData EXCEPT !.weather = <<>>]],
      [kind |-> "ok", data |->
          [WeatherData EXCEPT !.main = [feels_like |-> "20.9",
                                        humidity |-> "40"]]] }

\* str.capitalize()
capitalize(s) ==
    [i \in DOMAIN s |-> IF i = 1 THEN UpperChar(s[i]) ELSE LowerChar(s[i])]

TwoDigits(n) == IF n < 10 THEN "0" \o ToString(n) ELSE ToString(n)

\* datetime.fromtimestamp(dt).strftime("%Y-%m-%d %H:%M:%S") for a time of
\* the first day of the epoch, in a UTC process
strftime(dt) ==
    "1970-01-01 " \o TwoDigits(dt \div 3600) \o ":"
        \o TwoDigits((dt % 3600) \div 60) \o ":" \o TwoDigits(dt % 60)

get_weather(city, units, api_key, response) ==
    IF ~Truthy(city)
    THEN [error |-> "Error processing weather data: "
                        \o "City name must be a non-empty string"]
    ELSE IF units \notin {"metric", "imperial"}
    THEN [error |-> "Error processing weather data: "
                        \o "Units must be either 'metric' or 'imperial'"]
    ELSE IF ~Truthy(api_key)
    THEN [error |-> "Error processing weather data: OpenWeather API key "
                        \o "not found in environment variables"]
    ELSE IF response.kind = "raise"
    THEN [error |-> "Weather API request failed: " \o ProviderError]
    ELSE LET data == response.data
         IN  IF ~({"name", "main", "weather", "wind", "dt"}
                      \subseteq DOMAIN data)
             THEN [error |-> "Error processing weather data: "
                        \o "'Missing required fields in weather data'"]
             ELSE IF "temp" \notin DOMAIN data.main
             THEN [error |-> "Error processing weather data: 'temp'"]
             ELSE IF data.weather = <<>>
             THEN [error |-> "Unexpected error: list index out of range"]
             ELSE [city |-> data.name,
                   temperature |-> data.main.temp,
                   feels_like |-> data.main.feels_like,
                   humidity |-> data.main.humidity,
                   description |->
                       Str(capitalize(data.weather[1].description)),
                   wind_speed |-> data.wind.speed,
                   timestamp |-> strftime(data.dt)]

WeatherURL == "http://api.openweathermap.org/data/2.5/weather"

\* the requests.get calls of one get_weather call (news_chatbot.py:350): the
\* request is made once the city, the units and the API key have passed the
\* checks of lines 334-341
get_weather_requests(city, units, api_key, response) ==
    IF Truthy(city) /\ units \in {"metric", "imperial"} /\ Truthy(api_key)
    THEN << Call("requests.get", WeatherURL, response.kind,
                 response.kind = "raise") >>
    ELSE <<>>

(***************************************************************************)
(* State.                                                                  *)
(*   program             which of the two scripts is running               *)
(*   pc                  position of the turn loop                         *)
(*   turns               input lines read so far                           *)
(*   user_input          the stripped input line of the current turn       *)
(*   context_messages    chatbot(): the transcript sent to Chat Completion *)
(*   articles            chatbot(): the cached article list                *)
(*   last_response       chatbot(): the cached reply text                  *)
(*   moderation_response what the moderation provider did in the last call *)
(*   moderation_result   chatbot(): the verdict of the last                *)
(*                       check_moderation call                             *)
(*   message             chatbot(): the Chat Completion message of the     *)
(*                       current turn                                      *)
(*   calls               the functions the loop has called in the current  *)
(*                       turn, in order, with argument and outcome         *)
(*   printed             the lines the loop has printed in the current     *)
(*                       turn, in order                                    *)
(*   memory              news_agent: the agent's conversation memory       *)
(*   tool_output         news_agent: what the tool run in the current turn *)
(*                       returned                                          *)
(*   messages_before     chatbot(): the length of the transcript when the  *)
(*                       line of the current turn was read                 *)
(***************************************************************************)
VARIABLES program, pc, turns, user_input, context_messages, articles,
          last_response, moderation_response, moderation_result, message,
          calls, printed, memory, tool_output, messages_before

vars == << program, pc, turns, user_input, context_messages, articles,
           last_response, moderation_response, moderation_result, message,
           calls, printed, memory, tool_output, messages_before >>

session == << context_messages, articles, last_response >>

agent_state == << memory, tool_output >>

SystemPrompt ==
    "You are a helpful assistant that can fetch, summarize, and translate news."

RawInputs ==
    { <<" ", "E", "x", "i", "t">>,
      <<"h", "e", "l", "p">>,
      <<"T", "r", "e", "n", "d", "i", "n", "g">>,
      <<"Q", "u", "i", "t">>,
      <<" ">> }

NoFunctionCall ==
    [name |-> NoneVal, json_ok |-> TRUE, arguments |-> [note |-> "none"]]

NoMessage == [content |-> NoneVal, function_call |-> NoFunctionCall]

\* the values of the loop's locals before the turn assigns them (each is
\* assigned before it is read)
Unmoderated == [flagged |-> FALSE, categories |-> <<>>]

NoModeration == [kind |-> "none", results |-> <<>>]

Init ==
    /\ program \in {"news_chatbot", "news_agent"}
    /\ pc = "AwaitingInput"
    /\ turns = 0
    /\ user_input = <<>>
    /\ context_messages =
           IF program = "news_chatbot"
           THEN << [role |-> "system", content |-> SystemPrompt] >>
           ELSE <<>>
    /\ articles = <<>>
    /\ last_response = ""
    /\ moderation_response = NoModeration
    /\ moderation_result = Unmoderated
    /\ message = NoMessage
    /\ calls = <<>>
    /\ printed = <<>>
    /\ memory = <<>>
    /\ tool_output = ""
    /\ messages_before = Len(context_messages)

(***************************************************************************)
(* Helpers of the loop.                                                    *)
(***************************************************************************)
\* print(...): kind is the prefix of the line ("chatbot" for "Chatbot: "),
\* llm says whether text is the output of an LLM call
Line(kind, text, llm) == [kind |-> kind, text |-> text, llm |-> llm]

\* faulty variant: the comparison without .lower()
IsCommand_casesensitive(input, word) == Str(input) = word

\* user_input.lower() == word (news_chatbot.py:563, 567, 578)
IsCommand(input, word) == Str(lower(input)) = word

\* faulty variant: insert(0, ...) instead of append
AppendMessage_prepend(messages, role, content) ==
    << [role |-> role, content |-> content] >> \o messages

\* faulty variant: the message is appended twice
AppendMessage_twice(messages, role, content) ==
    messages \o << [role |-> role, content |-> content],
                   [role |-> role, content |-> content] >>

\* context_messages.append({"role": role, "content": content})
\* (news_chatbot.py:593, 616)
AppendMessage(messages, role, content) ==
    Append(messages, [role |-> role, content |-> content])

\* faulty variant: the verdict is ignored
IsFlagged_never(verdict) == FALSE

\* if moderation_result["flagged"] (news_chatbot.py:573, 611)
IsFlagged(verdict) == verdict.flagged

VerdictOf(result) ==
    [flagged |-> result.flagged, categories |-> result.categories]

FlaggedLines(first, verdict) ==
    << Line("chatbot", first, FALSE),
       Line("info",
            "Flagged categories: " \o join(", ", verdict.categories),
            FALSE) >>

\* except Exception as e: print(f"\nError: {str(e)}") (news_chatbot.py:749)
ErrorLine(e) == Line("error", e, FALSE)

\* faulty variant: no except clause around the turn
Raise_fatal(e) ==
    /\ printed' = Append(printed, ErrorLine(e))
    /\ pc' = "Crashed"

\* the rest of a turn whose try block raised e: the except clause of the loop
\* (news_chatbot.py:749-750)
Raise(e) ==
    /\ printed' = Append(printed, ErrorLine(e))
    /\ pc' = "AwaitingInput"

(***************************************************************************)
(* chatbot(), news_chatbot.py:560-569: read a line; exit and help.         *)
(***************************************************************************)
ReadInput ==
    /\ program = "news_chatbot"
    /\ pc = "AwaitingInput"
    /\ turns < MaxTurns
    /\ \E line \in RawInputs :
        /\ user_input' = strip(line)
        /\ IF IsCommand(user_input', "exit")
           THEN /\ printed' = << Line("bye", "Goodbye!", FALSE) >>
                /\ pc' = "Terminated"
           ELSE IF IsCommand(user_input', "help")
           THEN /\ printed' = << Line("help", "show_help", FALSE) >>
                /\ pc' = "AwaitingInput"
           ELSE /\ printed' = <<>>
                /\ pc' = "Moderating"
    /\ turns' = turns + 1
    /\ calls' = <<>>
    /\ message' = NoMessage
    /\ moderation_response' = NoModeration
    /\ moderation_result' = Unmoderated
    /\ messages_before' = Len(context_messages)
    /\ UNCHANGED << program, session, agent_state >>

(***************************************************************************)
(* chatbot(), news_chatbot.py:571-578 and 591-593: moderate the input;     *)
(* reject it, or route it to the trending command, or append it to the     *)
(* transcript for classification.                                          *)
(***************************************************************************)
ModerateInput ==
    /\ pc = "Moderating"
    /\ \E response \in ModerationResponses :
        LET text    == Str(lower(user_input))
            result  == check_moderation(text, response)
        IN  /\ moderation_response' = response
            /\ IF result.raised
               THEN /\ pc' = "Crashed"
                    /\ calls' = Append(calls,
                                       Call("check_moderation", text, "raised",
                                            TRUE))
                    /\ UNCHANGED << moderation_result, printed,
                                    context_messages >>
               ELSE /\ moderation_result' = VerdictOf(result)
                    /\ calls' =
                           Append(calls,
                                  Call("check_moderation", text,
                                       IF result.flagged THEN "flagged"
                                       ELSE "unflagged",
                                       ModerationFailed(response)))
                    /\ IF IsFlagged(VerdictOf(result))
                       THEN /\ printed' =
                                   printed \o FlaggedLines(
                                       "Your input contains inappropriate content. Please try again.",
                                       VerdictOf(result))
                            /\ pc' = "AwaitingInput"
                            /\ UNCHANGED context_messages
                       ELSE IF IsCommand(user_input, "trending")
                       THEN /\ pc' = "Trending"
                            /\ UNCHANGED << printed, context_messages >>
                       ELSE /\ context_messages' =
                                   IF user_input # <<>>
                                   THEN AppendMessage(context_messages, "user",
                                                      Str(user_input))
                                   ELSE context_messages
                            /\ pc' = "Classifying"
                            /\ UNCHANGED printed
    /\ UNCHANGED << program, messages_before, turns, user_input, articles, last_response,
                    message, agent_state >>

(***************************************************************************)
(* chatbot(), news_chatbot.py:578-589: the trending command.               *)
(***************************************************************************)
RECURSIVE RenderTopics(_, _)
RenderTopics(trending_topics, idx) ==
    IF idx > Len(trending_topics) THEN ""
    ELSE ToString(idx) \o ". " \o trending_topics[idx] \o "\n"
             \o RenderTopics(trending_topics, idx + 1)

\* faulty variant: enumerate without start=1
TrendingReply_fromzero(trending_topics) ==
    "Here are the current trending topics:\n"
        \o join("", [i \in DOMAIN trending_topics |->
                        ToString(i - 1) \o ". " \o trending_topics[i]
                            \o "\n"])

TrendingReply(trending_topics) ==
    "Here are the current trending topics:\n"
        \o RenderTopics(trending_topics, 1)

TrendingTurn ==
    /\ pc = "Trending"
    /\ \E response \in HeadlineResponses :
        LET trending_topics == get_trending_topics(NEWSAPI_API_KEY, response)
        IN  /\ calls' = Append(calls,
                               Call("get_trending_topics", "",
                                    trending_topics,
                                    response.kind = "raise"
                                        \/ response.status_code # 200))
            /\ IF trending_topics # <<>>
               THEN /\ printed' =
                           Append(printed,
                                  Line("chatbot",
                                       TrendingReply(trending_topics), FALSE))
                    /\ last_response' = TrendingReply(trending_topics)
               ELSE /\ printed' =
                           Append(printed,
                                  Line("chatbot",
                                       "Sorry, I couldn't fetch trending topics at the moment.",
                                       FALSE))
                    /\ UNCHANGED last_response
    /\ pc' = "AwaitingInput"
    /\ UNCHANGED << program, messages_before, turns, user_input, context_messages, articles,
                    moderation_response, moderation_result, message,
                    agent_state >>

(***************************************************************************)
(* The Chat Completion call of the dispatcher (news_chatbot.py:596-603):   *)
(* it raises, or returns a message with optional content and an optional   *)
(* function_call {name, arguments}; arguments is JSON text, given here     *)
(* parsed (json_ok says whether json.loads accepts it).                    *)
(***************************************************************************)
FunctionCall(name, arguments) ==
    [name |-> name, json_ok |-> TRUE, arguments |-> arguments]

FunctionCalls ==
    { FunctionCall("fetch_and_summarize", [topic |-> "ai"]),
      FunctionCall("fetch_and_summarize",
                   [topic |-> "ai", target_lang |-> "es"]),
      FunctionCall("fetch_and_summarize", [target_lang |-> "es"]),
      FunctionCall("translate_text", [target_lang |-> "es"]),
      FunctionCall("translate_text", [note |-> "x"]),
      FunctionCall("fetch_news", [topic |-> "ai"]),
      FunctionCall("fetch_news",
                   [topic |-> "ai", target_lang |-> "es", page_size |-> 1]),
      FunctionCall("summarize_article_by_index", [note |-> "x"]),
      FunctionCall("get_commodity_prices",
                   [commodities |-> << <<"g", "o", "l", "d">>, <<"u", "n", "i", "c", "o", "r", "n", "s">> >>,
                    currency |-> "INR"]),
      FunctionCall("get_commodity_prices",
                   [commodities |-> << <<"u", "n", "i", "c", "o", "r", "n", "s">> >>, currency |-> "USD"]),
      FunctionCall("get_commodity_prices", [note |-> "x"]),
      FunctionCall("get_weather", [city |-> "Paris"]),
      FunctionCall("get_weather", [city |-> "Paris", units |-> "imperial"]),
      FunctionCall("get_weather", [city |-> "Paris", units |-> "kelvin"]),
      FunctionCall("get_weather", [city |-> ""]),
      FunctionCall("get_weather", [units |-> "metric"]),
      FunctionCall("delete_history", [note |-> "x"]),
      [name |-> "fetch_news", json_ok |-> FALSE, arguments |-> [note |-> "x"]] }
    \cup { FunctionCall("summarize_article_by_index", [index |-> i]) :
               i \in -1 .. MaxArticles + 1 }

\* the function calls that come with free-form content in the same message
CallsWithContent ==
    { fc \in FunctionCalls : fc.name \in {"translate_text", "delete_history"} }

ChatResponses ==
    { [kind |-> "raise", message |-> NoMessage] }
    \cup { [kind |-> "ok",
            message |-> [content |-> NoneVal, function_call |-> fc]] :
               fc \in {NoFunctionCall} \cup FunctionCalls }
    \cup { [kind |-> "ok",
            message |-> [content |-> "Sure.", function_call |-> fc]] :
               fc \in {NoFunctionCall} \cup CallsWithContent }

HasFunctionCall(m) == m.function_call.name # NoneVal

(***************************************************************************)
(* chatbot(), news_chatbot.py:595-605: classification.                     *)
(***************************************************************************)
Classify ==
    /\ pc = "Classifying"
    /\ \E response \in ChatResponses :
        /\ calls' = Append(calls,
                           Call("chat.completions.create",
                                context_messages[Len(context_messages)].content,
                                response.kind, response.kind = "raise"))
        /\ IF response.kind = "raise"
           THEN /\ Raise(ProviderError)
                /\ UNCHANGED message
           ELSE /\ message' = response.message
                /\ printed' = Append(printed,
                                     Line("debug",
                                          response.message.content, TRUE))
                /\ pc' = IF Truthy(response.message.content)
                         THEN "DirectReply"
                         ELSE IF HasFunctionCall(response.message)
                         THEN "ToolInvocation"
                         ELSE "AwaitingInput"
    /\ UNCHANGED << program, messages_before, turns, user_input, session, moderation_response,
                    moderation_result, agent_state >>

(***************************************************************************)
(* chatbot(), news_chatbot.py:607-616: free-form assistant content.        *)
(***************************************************************************)
DirectReply ==
    /\ pc = "DirectReply"
    /\ \E response \in ModerationResponses :
        LET result == check_moderation(message.content, response)
        IN  /\ moderation_response' = response
            /\ IF result.raised
               THEN /\ calls' = Append(calls,
                                       Call("check_moderation",
                                            message.content, "raised", TRUE))
                    /\ Raise(ProviderError)
                    /\ UNCHANGED << moderation_result, context_messages >>
               ELSE /\ moderation_result' = VerdictOf(result)
                    /\ calls' =
                           Append(calls,
                                  Call("check_moderation", message.content,
                                       IF result.flagged THEN "flagged"
                                       ELSE "unflagged",
                                       ModerationFailed(response)))
                    /\ IF IsFlagged(VerdictOf(result))
                       THEN /\ printed' =
                                   printed \o FlaggedLines(
                                       "I generated a response that violates guidelines. Please rephrase your request.",
                                       VerdictOf(result))
                            /\ UNCHANGED context_messages
                       ELSE /\ printed' =
                                   Append(printed,
                                          Line("chatbot", message.content,
                                               TRUE))
                            /\ context_messages' =
                                   AppendMessage(context_messages,
                                                 "assistant", message.content)
                    /\ pc' = IF HasFunctionCall(message)
                             THEN "ToolInvocation"
                             ELSE "AwaitingInput"
    /\ UNCHANGED << program, messages_before, turns, user_input, articles, last_response,
                    message, agent_state >>

(***************************************************************************)
(* chatbot(), news_chatbot.py:618-747: tool invocation.  Every tool turn   *)
(* ends in AwaitingInput; an exception raised anywhere in it is caught at  *)
(* line 749 and printed.                                                   *)
(***************************************************************************)
ToolTurn(name) ==
    /\ pc = "ToolInvocation"
    /\ message.function_call.json_ok
    /\ message.function_call.name = name

arguments == message.function_call.arguments

KeyError(key) == "'" \o key \o "'"

ToolNames ==
    { "fetch_and_summarize", "translate_text", "fetch_news",
      "summarize_article_by_index", "get_commodity_prices", "get_weather" }

\* json.loads(function_call.arguments) raises (news_chatbot.py:621)
BadArguments ==
    /\ pc = "ToolInvocation"
    /\ ~message.function_call.json_ok
    /\ Raise("Expecting value: line 1 column 1 (char 0)")
    /\ UNCHANGED << program, messages_before, turns, user_input, session, moderation_response,
                    moderation_result, message, calls, agent_state >>

\* faulty variant: a final else branch that looks the name up and raises
UnknownTool_raises ==
    /\ pc = "ToolInvocation"
    /\ message.function_call.json_ok
    /\ message.function_call.name \notin ToolNames
    /\ Raise(KeyError(message.function_call.name))
    /\ UNCHANGED << program, messages_before, turns, user_input, session, moderation_response,
                    moderation_result, message, calls, agent_state >>

\* a function name outside the catalog matches no branch
\* (news_chatbot.py:623-729)
UnknownTool ==
    /\ pc = "ToolInvocation"
    /\ message.function_call.json_ok
    /\ message.function_call.name \notin ToolNames
    /\ pc' = "AwaitingInput"
    /\ UNCHANGED << program, messages_before, turns, user_input, session, moderation_response,
                    moderation_result, message, calls, printed, agent_state >>

\* news_chatbot.py:623-638
TranslateSummaries(summaries, target_lang, script) ==
    [i \in DOMAIN summaries |->
        [title |-> translate_text(summaries[i].title, target_lang,
                                  CallResponse(script, 2 * i - 1)),
         summary |-> translate_text(summaries[i].summary, target_lang,
                                    CallResponse(script, 2 * i))]]

RECURSIVE RenderSummaries(_, _)
RenderSummaries(summaries, i) ==
    IF i > Len(summaries) THEN ""
    ELSE ToString(i) \o ". " \o summaries[i].title \o "\n"
             \o summaries[i].summary \o "\n\n"
             \o RenderSummaries(summaries, i + 1)

SummariesReply(topic, summaries) ==
    "Here are the latest articles about '" \o topic \o "':\n\n"
        \o RenderSummaries(summaries, 1)

\* the completion request behind a translate_text call did not deliver a
\* translation: it raised, or its content is None or blank
TranslationFailed(response) ==
    response.kind # "ok" \/ strip(response.content) = <<>>

\* the first n translate_text calls of a loop over items, two per item: of
\* first, then of second
TranslateCalls(n, before, after, first, second, script) ==
    [k \in 1..n |->
        LET i     == (k + 1) \div 2
            field == IF k % 2 = 1 THEN first ELSE second
        IN  Call("translate_text", before[i][field], after[i][field],
                 TranslationFailed(CallResponse(script, k)))]

FetchAndSummarizeTool ==
    /\ ToolTurn("fetch_and_summarize")
    /\ IF "topic" \notin DOMAIN arguments
       THEN Raise(KeyError("topic")) /\ UNCHANGED << calls, last_response >>
       ELSE \E response \in NewsResponses, script \in CompletionScripts :
           LET topic       == arguments.topic
               target_lang == Get(arguments, "target_lang", "en")
               fetched     == fetch_and_summarize(topic, "en", 3,
                                                  NEWSAPI_API_KEY,
                                                  response, script)
               summaries   == IF target_lang # "en"
                              THEN TranslateSummaries(fetched.value,
                                                      target_lang, script)
                              ELSE fetched.value
               reply       == SummariesReply(topic, summaries)
               \* the fetch_news call of fetch_and_summarize (line 149)
               inner       == Call("fetch_news", topic,
                                   fetch_news(topic, "en", 3, NEWSAPI_API_KEY,
                                              response),
                                   response.kind = "raise")
           IN  IF fetched.raised
               THEN /\ Raise(fetched.value)
                    /\ calls' = calls
                                   \o << inner,
                                         Call("fetch_and_summarize", topic,
                                              "raised",
                                              response.kind = "raise") >>
                    /\ UNCHANGED last_response
               ELSE /\ calls' =
                           calls
                           \o << inner,
                                 Call("fetch_and_summarize", topic,
                                      ToString(Len(fetched.value)),
                                      response.kind = "raise") >>
                           \o (IF target_lang # "en"
                               THEN TranslateCalls(2 * Len(fetched.value),
                                                   fetched.value, summaries,
                                                   "title", "summary", script)
                               ELSE <<>>)
                    /\ last_response' = reply
                    /\ printed' = Append(printed,
                                         Line("chatbot", reply, FALSE))
                    /\ pc' = "AwaitingInput"
    /\ UNCHANGED << program, messages_before, turns, user_input, context_messages, articles,
                    moderation_response, moderation_result, message,
                    agent_state >>

\* news_chatbot.py:640-643
TranslateTool ==
    /\ ToolTurn("translate_text")
    /\ IF "target_lang" \notin DOMAIN arguments
       THEN Raise(KeyError("target_lang")) /\ UNCHANGED calls
       ELSE \E response \in CompletionResponses :
           LET target_lang == arguments.target_lang
               translated_response ==
                   translate_text(last_response, target_lang, response)
           IN  /\ calls' = Append(calls,
                                  Call("translate_text", last_response,
                                       translated_response,
                                       TranslationFailed(response)))
               /\ printed' =
                      Append(printed,
                             Line("chatbot", translated_response,
                                  translated_response # last_response))
               /\ pc' = "AwaitingInput"
    /\ UNCHANGED << program, messages_before, turns, user_input, session, moderation_response,
                    moderation_result, message, agent_state >>

\* news_chatbot.py:651-654: translate title and description of each article
\* in place; article['title'] or article['description'] raises KeyError for
\* an article without that field, leaving the earlier articles translated
RECURSIVE TranslateArticles(_, _, _, _)
TranslateArticles(fetched, target_lang, script, i) ==
    IF i > Len(fetched)
    THEN [raised |-> FALSE, error |-> "", value |-> fetched, ncalls |-> 2 * Len(fetched)]
    ELSE LET article == fetched[i]
         IN  IF "title" \notin DOMAIN article
             THEN [raised |-> TRUE, error |-> KeyError("title"),
                   value |-> fetched, ncalls |-> 2 * (i - 1)]
             ELSE LET with_title ==
                          [article EXCEPT !.title =
                              translate_text(article.title, target_lang,
                                             CallResponse(script, 2 * i - 1))]
                  IN  IF "description" \notin DOMAIN article
                      THEN [raised |-> TRUE,
                            error |-> KeyError("description"),
                            value |-> [fetched EXCEPT ![i] = with_title],
                            ncalls |-> 2 * i - 1]
                      ELSE TranslateArticles(
                               [fetched EXCEPT ![i] =
                                   [with_title EXCEPT !.description =
                                       translate_text(
                                           article.description, target_lang,
                                           CallResponse(script, 2 * i))]],
                               target_lang, script, i + 1)

\* news_chatbot.py:656-658
RECURSIVE RenderArticles(_, _)
RenderArticles(fetched, i) ==
    IF i > Len(fetched) THEN [raised |-> FALSE, value |-> ""]
    ELSE LET article == fetched[i]
             rest    == RenderArticles(fetched, i + 1)
         IN  IF \E key \in {"title", "description", "url"} :
                    key \notin DOMAIN article
             THEN [raised |-> TRUE,
                   value |-> KeyError(
                       IF "title" \notin DOMAIN article THEN "title"
                       ELSE IF "description" \notin DOMAIN article
                       THEN "description" ELSE "url")]
             ELSE IF rest.raised THEN rest
             ELSE [raised |-> FALSE,
                   value |-> ToString(i) \o ". " \o article.title
                                 \o " \n Description: " \o article.description
                                 \o " \n (URL: " \o article.url \o ")\n"
                                 \o rest.value]

NewsReply(topic, fetched) ==
    LET body == RenderArticles(fetched, 1)
    IN  IF body.raised THEN body
        ELSE [raised |-> FALSE,
              value |-> "Here are the top " \o ToString(Len(fetched))
                            \o " articles for '" \o topic \o "':\n"
                            \o body.value]

\* news_chatbot.py:645-661
FetchNewsTool ==
    /\ ToolTurn("fetch_news")
    /\ IF "topic" \notin DOMAIN arguments
       THEN /\ Raise(KeyError("topic"))
            /\ UNCHANGED << calls, articles, last_response >>
       ELSE \E response \in NewsResponses, script \in CompletionScripts :
           LET topic       == arguments.topic
               target_lang == Get(arguments, "target_lang", "en")
               page_size   == Get(arguments, "page_size", 5)
               fetched     == fetch_news(topic, "en", page_size,
                                         NEWSAPI_API_KEY, response)
               translated  ==
                   IF target_lang # "en"
                   THEN TranslateArticles(fetched, target_lang, script, 1)
                   ELSE [raised |-> FALSE, error |-> "", value |-> fetched,
                         ncalls |-> 0]
               reply       == NewsReply(topic, translated.value)
           IN  /\ articles' = translated.value
               /\ calls' = Append(calls,
                                  Call("fetch_news", topic, fetched,
                                       response.kind = "raise"))
                               \o TranslateCalls(translated.ncalls, fetched,
                                                 translated.value, "title",
                                                 "description", script)
               /\ IF translated.raised
                  THEN Raise(translated.error) /\ UNCHANGED last_response
                  ELSE IF reply.raised
                  THEN Raise(reply.value) /\ UNCHANGED last_response
                  ELSE /\ last_response' = reply.value
                       /\ printed' = Append(printed,
                                            Line("chatbot", reply.value,
                                                 FALSE))
                       /\ pc' = "AwaitingInput"
    /\ UNCHANGED << program, messages_before, turns, user_input, context_messages,
                    moderation_response, moderation_result, message,
                    agent_state >>

\* faulty variant: the lower bound is not tested
ValidIndex_nolower(index, cached) == index < Len(cached)

\* 0 <= index < len(articles) (news_chatbot.py:667)
ValidIndex(index, cached) == 0 <= index /\ index < Len(cached)

\* cached[index] of a Python list: a negative index counts from the end, an
\* index out of range raises IndexError
ListItem(cached, index) ==
    IF 0 <= index /\ index < Len(cached)
    THEN [raised |-> FALSE, value |-> cached[index + 1]]
    ELSE IF index < 0 /\ -index <= Len(cached)
    THEN [raised |-> FALSE, value |-> cached[Len(cached) + index + 1]]
    ELSE [raised |-> TRUE, value |-> [note |-> "list index out of range"]]

InvalidIndexMessage == "Invalid article index. Please try again."

\* news_chatbot.py:663-675
SummarizeByIndexTool ==
    /\ ToolTurn("summarize_article_by_index")
    /\ IF "index" \notin DOMAIN arguments
       THEN Raise(KeyError("index")) /\ UNCHANGED << calls, last_response >>
       ELSE LET index == arguments.index - 1
                item  == ListItem(articles, index)
            IN  IF ValidIndex(index, articles)
                THEN IF item.raised
                     THEN Raise("list index out of range")
                              /\ UNCHANGED << calls, last_response >>
                     ELSE \E response \in CompletionResponses :
                         LET article == item.value
                             summary == summarize_article(article, response)
                         IN  /\ calls' =
                                    Append(calls,
                                           Call("summarize_article",
                                                Get(article, "title", NoneVal),
                                                summary,
                                                response.kind # "ok"))
                             /\ last_response' =
                                    "Here's the summary:\n" \o summary
                             /\ printed' =
                                    Append(printed,
                                           Line("chatbot", summary,
                                                "title" \in DOMAIN article
                                                    /\ response.kind = "ok"))
                             /\ pc' = "AwaitingInput"
                ELSE LET error_msg == InvalidIndexMessage
                     IN  /\ last_response' = error_msg
                         /\ printed' = Append(printed,
                                              Line("chatbot", error_msg,
                                                   FALSE))
                         /\ pc' = "AwaitingInput"
                         /\ UNCHANGED calls
    /\ UNCHANGED << program, messages_before, turns, user_input, context_messages, articles,
                    moderation_response, moderation_result, message,
                    agent_state >>

\* news_chatbot.py:677-727.  The rendering of a commodity reply is a second
\* Chat Completion call, whose content is the reply as it is.
CommodityTool ==
    /\ ToolTurn("get_commodity_prices")
    /\ \E quotes \in QuoteScripts, response \in CompletionResponses :
        LET commodities_list == Get(arguments, "commodities", <<>>)
            currency == Get(arguments, "currency", "USD")
            prices   == get_commodity_prices(commodities_list, quotes)
            quoted   == ticker_history_calls(commodities_list, quotes)
            fetched  == Call("get_commodity_prices", commodities_list,
                             prices, FALSE)
            convert  == Call("chat.completions.create", currency,
                             response.kind, response.kind = "raise")
        IN  IF prices = <<>>
            THEN LET reply == "Sorry, I couldn't find price information for the requested commodities."
                 IN  /\ calls' = calls \o quoted \o << fetched >>
                     /\ last_response' = reply
                     /\ printed' = Append(printed,
                                          Line("chatbot", reply, FALSE))
                     /\ pc' = "AwaitingInput"
            ELSE IF response.kind = "raise"
            THEN /\ calls' = calls \o quoted \o << fetched, convert >>
                 /\ Raise(ProviderError)
                 /\ UNCHANGED last_response
            ELSE LET reply == IF response.kind = "none" THEN NoneVal
                              ELSE Str(response.content)
                 IN  /\ calls' = calls \o quoted \o << fetched, convert >>
                     /\ last_response' = reply
                     /\ printed' = Append(printed,
                                          Line("chatbot", reply,
                                               response.kind = "ok"))
                     /\ pc' = "AwaitingInput"
    /\ UNCHANGED << program, messages_before, turns, user_input, context_messages, articles,
                    moderation_response, moderation_result, message,
                    agent_state >>

\* news_chatbot.py:735-742; the degree sign and the emoji of the source's
\* literals are left out
WeatherReply(city, units, weather_data) ==
    LET unit_symbol == IF units = "metric" THEN "C" ELSE "F"
    IN  "Current weather in " \o city \o ":\n"
            \o "Temperature: " \o weather_data.temperature
            \o unit_symbol \o "\n"
            \o "Feels like: " \o weather_data.feels_like
            \o unit_symbol \o "\n"
            \o "Humidity: " \o weather_data.humidity \o "%\n"
            \o "Conditions: " \o weather_data.description \o "\n"
            \o "Wind speed: " \o weather_data.wind_speed \o " "
            \o (IF units = "metric" THEN "m/s" ELSE "mph") \o "\n"
            \o "Last updated: " \o weather_data.timestamp

\* news_chatbot.py:729-747.  "if weather_data:" is the truth value of the
\* returned dict, which is false only for an empty dict.
WeatherTool ==
    /\ ToolTurn("get_weather")
    /\ IF "city" \notin DOMAIN arguments
       THEN Raise(KeyError("city")) /\ UNCHANGED << calls, last_response >>
       ELSE \E response \in WeatherResponses :
           LET city  == arguments.city
               units == Get(arguments, "units", "metric")
               weather_data == get_weather(city, units, OPENWEATHER_API_KEY,
                                           response)
           IN  /\ calls' = calls
                              \o get_weather_requests(city, units,
                                                      OPENWEATHER_API_KEY,
                                                      response)
                              \o << Call("get_weather",
                                         [city |-> city, units |-> units],
                                         IF "error" \in DOMAIN weather_data
                                         THEN "error" ELSE "report",
                                         get_weather_requests(
                                             city, units,
                                             OPENWEATHER_API_KEY,
                                             response) # <<>>
                                             /\ response.kind = "raise") >>
               /\ IF DOMAIN weather_data = {}
                  THEN LET reply == "Sorry, I couldn't fetch weather information for "
                                        \o city \o "."
                       IN  /\ last_response' = reply
                           /\ printed' = Append(printed,
                                                Line("chatbot", reply, FALSE))
                           /\ pc' = "AwaitingInput"
                  ELSE IF "temperature" \notin DOMAIN weather_data
                  THEN Raise(KeyError("temperature"))
                           /\ UNCHANGED last_response
                  ELSE LET reply == WeatherReply(city, units, weather_data)
                       IN  /\ last_response' = reply
                           /\ printed' = Append(printed,
                                                Line("chatbot", reply, FALSE))
                           /\ pc' = "AwaitingInput"
    /\ UNCHANGED << program, messages_before, turns, user_input, context_messages, articles,
                    moderation_response, moderation_result, message,
                    agent_state >>

(***************************************************************************)
(* news_agent.py.  translate_text (news_agent.py:80-95): params is JSON    *)
(* text, given parsed; response is what ChatOpenAI.predict does.           *)
(***************************************************************************)
AgentParams ==
    { [json_ok |-> TRUE, inputs |-> [text |-> "hello", target_lang |-> "es"]],
      [json_ok |-> TRUE, inputs |-> [text |-> "hello"]],
      [json_ok |-> FALSE, inputs |-> [note |-> "x"]] }

PredictResponses == { r \in CompletionResponses : r.kind # "none" }

agent_translate_text(params, response) ==
    IF ~params.json_ok
    THEN "Invalid input. Provide a JSON string with 'text' and 'target_lang'."
    ELSE LET text        == Get(params.inputs, "text", "")
             target_lang == Get(params.inputs, "target_lang", "en")
         IN  IF response.kind = "raise"
             THEN "Error translating text: " \o ProviderError
             ELSE Str(response.content)

\* the text a translate_text call of news_agent.py is given: the "text" of
\* its params, or the params as they are when they are no JSON
AgentText(params) ==
    IF params.json_ok THEN Get(params.inputs, "text", "") ELSE "{not json"

(***************************************************************************)
(* get_weather (news_agent.py:57-78): the params are parsed, the request   *)
(* is made with whatever units they name, and every failure after the      *)
(* parsing becomes an "Error fetching weather" text.                       *)
(***************************************************************************)
AgentWeatherParams ==
    { [json_ok |-> TRUE, inputs |-> [city |-> "Paris"]],
      [json_ok |-> TRUE, inputs |-> [city |-> "Paris", units |-> "kelvin"]],
      [json_ok |-> FALSE, inputs |-> [note |-> "x"]] }

\* str(e) of the exception the try block of lines 70-76 raises, or None
agent_weather_error(response) ==
    IF response.kind = "raise" THEN ProviderError
    ELSE LET data == response.data
         IN  IF "main" \notin DOMAIN data THEN KeyError("main")
             ELSE IF "temp" \notin DOMAIN data.main THEN KeyError("temp")
             ELSE IF "weather" \notin DOMAIN data THEN KeyError("weather")
             ELSE IF data.weather = <<>> THEN "list index out of range"
             ELSE NoneVal

agent_get_weather(params, response) ==
    IF ~params.json_ok
    THEN "Invalid input. Provide a JSON string with 'city' and optional 'units'."
    ELSE LET city  == Get(params.inputs, "city", "")
             units == Get(params.inputs, "units", "metric")
             e     == agent_weather_error(response)
         IN  IF e # NoneVal
             THEN "Error fetching weather: " \o e
             ELSE "The weather in " \o city \o " is "
                      \o response.data.main.temp \o "C with "
                      \o Str(response.data.weather[1].description) \o "."

\* the requests.get calls of one get_weather call (news_agent.py:71)
agent_weather_requests(params, response) ==
    IF params.json_ok
    THEN << Call("requests.get", WeatherURL, response.kind,
                 response.kind = "raise") >>
    ELSE <<>>

\* the call log of one get_weather tool run
AgentWeatherCalls(params, response) ==
    agent_weather_requests(params, response)
        \o << Call("get_weather",
                   [city  |-> Get(params.inputs, "city", ""),
                    units |-> Get(params.inputs, "units", "metric")],
                   IF ~params.json_ok
                          \/ agent_weather_error(response) # NoneVal
                   THEN "error" ELSE "report",
                   params.json_ok /\ response.kind = "raise") >>

(***************************************************************************)
(* get_commodity_prices (news_agent.py:97-125).  The result dict is the    *)
(* sequence of its entries; the k-th ticker.history call gets              *)
(* CallResponse(script, k).                                                *)
(***************************************************************************)
agent_available_commodities ==
    << [name |-> <<"G","o","l","d">>, symbol |-> "GC=F"],
       [name |-> <<"S","i","l","v","e","r">>, symbol |-> "SI=F"],
       [name |-> <<"C","o","p","p","e","r">>, symbol |-> "HG=F"],
       [name |-> <<"C","r","u","d","e"," ","O","i","l">>, symbol |-> "CL=F"] >>

AgentCommodityParams ==
    { [json_ok |-> TRUE,
       inputs |-> [commodities_list |->
                       << <<"G","o","l","d">>,
                          <<"u","n","i","c","o","r","n","s">> >>]],
      [json_ok |-> TRUE,
       inputs |-> [commodities_list |->
                       << <<"u","n","i","c","o","r","n","s">> >>]],
      [json_ok |-> TRUE,
       inputs |-> [commodities_list |->
                       << <<"G","o","l","d">>,
                          <<"S","i","l","v","e","r">> >>]],
      [json_ok |-> FALSE, inputs |-> [note |-> "x"]] }

\* available_commodities.get(commodity) is not None
agent_supported(commodity) ==
    \E i \in DOMAIN agent_available_commodities :
        agent_available_commodities[i].name = commodity

\* f"${current_price:.2f}" of a price in hundredths
FormatPrice(price) ==
    "$" \o ToString(price \div 100) \o "." \o TwoDigits(price % 100)

\* results, from the i-th name on, k - 1 quotes having been requested
RECURSIVE agent_results(_, _, _, _)
agent_results(commodities_list, script, i, k) ==
    IF i > Len(commodities_list) THEN <<>>
    ELSE LET commodity == commodities_list[i]
             data      == CallResponse(script, k)
         IN  IF ~agent_supported(commodity)
             THEN << [name |-> Str(commodity), value |-> "Not supported"] >>
                      \o agent_results(commodities_list, script, i + 1, k)
             ELSE << [name |-> Str(commodity),
                      value |->
                          IF data.kind = "raise"
                          THEN "Error: " \o ProviderError
                          ELSE IF data.kind = "empty"
                          THEN "Error: single positional indexer is out-of-bounds"
                          ELSE FormatPrice(data.close)] >>
                      \o agent_results(commodities_list, script, i + 1, k + 1)

agent_get_commodity_prices(params, script) ==
    IF ~params.json_ok
    THEN "Invalid input. Provide a JSON string with 'commodities_list'."
    ELSE LET results == agent_results(Get(params.inputs, "commodities_list",
                                          <<>>), script, 1, 1)
         IN  join("\n", [i \in DOMAIN results |->
                             results[i].name \o ": " \o results[i].value])

\* the ticker.history calls of one get_commodity_prices call
\* (news_agent.py:119-120), one per supported name
agent_ticker_history_calls(commodities_list, script) ==
    LET supported == SelectSeq(commodities_list, agent_supported)
    IN  [k \in DOMAIN supported |->
            Call("ticker.history", Str(supported[k]),
                 CallResponse(script, k).kind,
                 CallResponse(script, k).kind = "raise")]

\* the call log of one get_commodity_prices tool run
AgentCommodityCalls(params, script) ==
    LET commodities_list == Get(params.inputs, "commodities_list", <<>>)
    IN  (IF params.json_ok
         THEN agent_ticker_history_calls(commodities_list, script)
         ELSE <<>>)
        \o
        << Call("get_commodity_prices", commodities_list,
                IF params.json_ok
                THEN agent_results(commodities_list, script, 1, 1)
                ELSE <<>>,
                FALSE) >>

(***************************************************************************)
(* chatbot(), news_agent.py:150-162.  agent.run chooses whether to run a   *)
(* tool and with what params, then returns a response or raises; the       *)
(* memory records the exchange of a run that returned.                     *)
(***************************************************************************)
ExitWords == {"exit", "quit"}

AgentReadInput ==
    /\ program = "news_agent"
    /\ pc = "AwaitingInput"
    /\ turns < MaxTurns
    /\ \E line \in RawInputs :
        /\ user_input' = strip(line)
        /\ IF Str(lower(user_input')) \in ExitWords
           THEN /\ printed' = << Line("bye", "Goodbye!", FALSE) >>
                /\ pc' = "Terminated"
           ELSE /\ printed' = <<>>
                /\ pc' = "AgentRunning"
    /\ turns' = turns + 1
    /\ calls' = <<>>
    /\ tool_output' = ""
    /\ UNCHANGED << program, messages_before, session, moderation_response, moderation_result,
                    message, memory >>

\* the rest of a turn once agent.run has run a tool (or none): tool_calls is
\* the call log of the tool run and output the text the tool returned
AgentFinish(tool_calls, output, run) ==
    LET answer == IF tool_calls # <<>> THEN output ELSE "Done."
    IN  /\ tool_output' = output
        /\ calls' = tool_calls
                        \o << Call("agent.run", Str(user_input), run,
                                   run = "raise") >>
        /\ IF run = "raise"
           THEN /\ printed' = Append(printed, ErrorLine(ProviderError))
                /\ UNCHANGED memory
           ELSE /\ printed' = Append(printed, Line("chatbot", answer, TRUE))
                /\ memory' = Append(memory,
                                    [input |-> Str(user_input),
                                     output |-> answer])

AgentRun ==
    /\ pc = "AgentRunning"
    /\ \E run \in {"raise", "ok"} :
        \/ AgentFinish(<<>>, "", run)
        \/ \E params \in AgentParams, response \in PredictResponses :
               AgentFinish(<< Call("translate_text", AgentText(params),
                                   agent_translate_text(params, response),
                                   params.json_ok
                                       /\ response.kind = "raise") >>,
                           agent_translate_text(params, response), run)
        \/ \E params \in AgentWeatherParams, response \in WeatherResponses :
               AgentFinish(AgentWeatherCalls(params, response),
                           agent_get_weather(params, response), run)
        \/ \E params \in AgentCommodityParams, script \in QuoteScripts :
               AgentFinish(AgentCommodityCalls(params, script),
                           agent_get_commodity_prices(params, script), run)
    /\ pc' = "AwaitingInput"
    /\ UNCHANGED << program, messages_before, turns, user_input, session, moderation_response,
                    moderation_result, message >>

Next ==
    \/ ReadInput
    \/ ModerateInput
    \/ TrendingTurn
    \/ Classify
    \/ DirectReply
    \/ BadArguments
    \/ UnknownTool
    \/ FetchAndSummarizeTool
    \/ TranslateTool
    \/ FetchNewsTool
    \/ SummarizeByIndexTool
    \/ CommodityTool
    \/ WeatherTool
    \/ AgentReadInput
    \/ AgentRun

Spec == Init /\ [][Next]_vars

TypeOK ==
    /\ pc \in {"AwaitingInput", "Moderating", "Trending", "Classifying",
               "DirectReply", "ToolInvocation", "AgentRunning", "Terminated",
               "Crashed"}
    /\ turns \in 0..MaxTurns

(***************************************************************************)
(* Properties.                                                             *)
(***************************************************************************)
ChatbotRuns == program = "news_chatbot"

InputRefusal ==
    "Your input contains inappropriate content. Please try again."

IsPrefix(s, t) == Len(s) <= Len(t) /\ SubSeq(t, 1, Len(s)) = s

\* the current step called check_moderation and got a flagged verdict
FlaggedStep ==
    /\ Len(calls') = Len(calls) + 1
    /\ calls'[Len(calls')].fn = "check_moderation"
    /\ calls'[Len(calls')].res = "flagged"

\* C1: a message is appended to the transcript only in a step whose
\* check_moderation call on that text (the lower-cased utterance for a user
\* message, the content for an assistant message) returned unflagged; a step
\* whose check returned flagged appends nothing, and for the user's
\* utterance prints the fixed refusal and ends the turn.
C1_FlaggedContentNotAppended ==
    [][ /\ \A i \in (Len(context_messages) + 1) .. Len(context_messages') :
              LET m == context_messages'[i]
                  c == calls'[Len(calls')]
              IN  /\ calls' # <<>>
                  /\ c.fn = "check_moderation"
                  /\ c.res = "unflagged"
                  /\ c.arg = IF m.role = "user" THEN Str(lower(user_input))
                             ELSE m.content
                  /\ m.content = IF m.role = "user" THEN Str(user_input)
                                 ELSE message.content
        /\ FlaggedStep =>
              /\ context_messages' = context_messages
              /\ pc = "Moderating" =>
                    /\ pc' = "AwaitingInput"
                    /\ printed'[1] = Line("chatbot", InputRefusal, FALSE)
      ]_vars

\* a flagged utterance has been refused in the turn after one that was
\* accepted into the transcript
C1_Witness ==
    /\ ChatbotRuns
    /\ pc = "AwaitingInput"
    /\ Len(context_messages) = 2
    /\ calls # <<>>
    /\ calls[1].fn = "check_moderation"
    /\ calls[1].res = "flagged"
    /\ printed # <<>>
    /\ printed[1].text = InputRefusal

\* C2: every text produced by an LLM call that the chatbot has printed as a
\* reply in the current turn was passed to check_moderation in that turn and
\* got an unflagged verdict.
C2_GeneratedTextModerated ==
    ChatbotRuns =>
        \A i \in DOMAIN printed :
            (printed[i].kind = "chatbot" /\ printed[i].llm) =>
                \E j \in DOMAIN calls :
                    /\ calls[j].fn = "check_moderation"
                    /\ calls[j].arg = printed[i].text
                    /\ calls[j].res = "unflagged"

\* C3: when the moderation provider call failed, check_moderation returned
\* flagged=false with empty categories without raising, and the turn went on
\* without a refusal.
C3_ModerationFailOpen ==
    /\ pc # "Crashed"
    /\ \A i \in DOMAIN calls :
           (calls[i].fn = "check_moderation" /\ calls[i].failed) =>
               calls[i].res = "unflagged"
    /\ ModerationFailed(moderation_response) =>
           /\ moderation_result = [flagged |-> FALSE, categories |-> <<>>]
           /\ \A i \in DOMAIN printed : printed[i].kind # "info"

\* the moderation request for an utterance raised and the utterance went on
\* to classification
C3_Witness ==
    /\ moderation_response.kind = "raise"
    /\ pc = "Classifying"
    /\ Len(context_messages) = 2

\* a summarize_article_by_index tool turn with an index argument is about to
\* be dispatched
IndexTurn ==
    /\ ChatbotRuns
    /\ pc = "ToolInvocation"
    /\ message.function_call.json_ok
    /\ message.function_call.name = "summarize_article_by_index"
    /\ "index" \in DOMAIN message.function_call.arguments

\* C4: a summarize_article_by_index tool turn leaves the cached article list
\* unchanged, and for an index outside [1, len(articles)] it replies with the
\* invalid-index error without calling the summarizer.
C4_InvalidIndexRejected ==
    [][ IndexTurn =>
          /\ articles' = articles
          /\ (message.function_call.arguments.index < 1
                  \/ message.function_call.arguments.index > Len(articles)) =>
                /\ calls' = calls
                /\ printed' = Append(printed,
                                     Line("chatbot", InvalidIndexMessage,
                                          FALSE))
                /\ last_response' = InvalidIndexMessage
                /\ pc' = "AwaitingInput"
      ]_vars

\* index 0 has been rejected while articles were cached
C4_Witness ==
    /\ ChatbotRuns
    /\ pc = "AwaitingInput"
    /\ articles # <<>>
    /\ message.function_call.name = "summarize_article_by_index"
    /\ "index" \in DOMAIN message.function_call.arguments
    /\ message.function_call.arguments.index = 0
    /\ last_response = InvalidIndexMessage

\* the current turn's utterance is the trending command
TrendingUtterance ==
    /\ ChatbotRuns
    /\ turns > 0
    /\ Str(lower(user_input)) = "trending"

\* the reply that numbers topics from 1
NumberedTopics(topics) ==
    "Here are the current trending topics:\n"
        \o join("", [i \in DOMAIN topics |->
                        ToString(i) \o ". " \o topics[i] \o "\n"])

\* C5 as stated: every finished turn whose utterance is the trending command
\* has called the Trending Topics adapter and made no Chat Completion call.
C5_TrendingAlwaysCallsAdapter ==
    (TrendingUtterance /\ pc = "AwaitingInput") =>
        /\ \E i \in DOMAIN calls : calls[i].fn = "get_trending_topics"
        /\ \A i \in DOMAIN calls : calls[i].fn # "chat.completions.create"

\* C5 amended: in a turn whose utterance is the trending command no step
\* changes the message history or calls Chat Completion; once the moderation
\* check has not flagged the utterance the Trending Topics adapter is called,
\* it returns at most 10 topics, and when it returns any, the reply numbers
\* them from 1 and last_response becomes that reply.
C5_TrendingTurn ==
    [][ (TrendingUtterance /\ pc \in {"Moderating", "Trending"}) =>
          /\ context_messages' = context_messages
          /\ \A i \in DOMAIN calls' :
                calls'[i].fn # "chat.completions.create"
          /\ pc = "Moderating" =>
                /\ Len(calls') = 1
                /\ pc' = IF calls'[1].res = "flagged" THEN "AwaitingInput"
                         ELSE "Trending"
          /\ pc = "Trending" =>
                LET c == calls'[Len(calls')]
                IN  /\ Len(calls') = 2
                    /\ c.fn = "get_trending_topics"
                    /\ Len(c.res) <= 10
                    /\ pc' = "AwaitingInput"
                    /\ IF c.res # <<>>
                       THEN /\ last_response' = NumberedTopics(c.res)
                            /\ printed' =
                                   << Line("chatbot", NumberedTopics(c.res),
                                           FALSE) >>
                       ELSE last_response' = last_response
      ]_vars

\* a trending turn has ended with a reply that lists 10 topics
C5_Witness ==
    /\ TrendingUtterance
    /\ pc = "AwaitingInput"
    /\ Len(calls) = 2
    /\ calls[2].fn = "get_trending_topics"
    /\ Len(calls[2].res) = 10
    /\ last_response = NumberedTopics(calls[2].res)
    /\ Len(context_messages) = 1

\* the LLM-provider endpoints
IsLLMCall(c) == c.fn \in {"check_moderation", "chat.completions.create"}

\* C6 as stated: a turn whose utterance is help, trending or exit makes no
\* call to Moderation or Chat Completion and never reaches Classifying.
C6_NoLLMCallForBuiltins ==
    (ChatbotRuns /\ turns > 0
         /\ Str(lower(user_input)) \in {"help", "trending", "exit"}) =>
        /\ \A i \in DOMAIN calls : ~IsLLMCall(calls[i])
        /\ pc # "Classifying"

\* C6 amended: help and exit are handled before any LLM-provider call;
\* trending is handled after the moderation check of the utterance and only
\* when that check did not flag it; none of the three makes a Chat
\* Completion call or reaches Classifying.
C6_BuiltinsShortCircuit ==
    (ChatbotRuns /\ turns > 0) =>
        LET word == Str(lower(user_input))
        IN  /\ word = "exit" => (calls = <<>> /\ pc = "Terminated")
            /\ word = "help" => (calls = <<>> /\ pc = "AwaitingInput")
            /\ word = "trending" =>
                  /\ pc \in {"Moderating", "Trending", "AwaitingInput"}
                  /\ \A i \in DOMAIN calls :
                        /\ calls[i].fn # "chat.completions.create"
                        /\ calls[i].fn = "get_trending_topics" =>
                              /\ i = 2
                              /\ calls[1].fn = "check_moderation"
                              /\ calls[1].res = "unflagged"
                  /\ pc = "Trending" =>
                        /\ Len(calls) = 1
                        /\ calls[1].fn = "check_moderation"

\* the trending command is about to be handled, after its moderation check
C6_Witness ==
    /\ ChatbotRuns
    /\ Str(lower(user_input)) = "trending"
    /\ pc = "Trending"
    /\ Len(calls) = 1
    /\ calls[1].fn = "check_moderation"

\* C7: the Chat Completion call of a turn comes after a check_moderation
\* call on the turn's utterance that returned unflagged; after a flagged
\* verdict on the utterance the turn is over with no further call.
C7_ClassifiedOnlyIfUnflagged ==
    ChatbotRuns =>
        /\ \A i \in DOMAIN calls :
              calls[i].fn = "chat.completions.create" =>
                  /\ i > 1
                  /\ calls[1].fn = "check_moderation"
                  /\ calls[1].arg = Str(lower(user_input))
                  /\ calls[1].res = "unflagged"
        /\ pc \in {"Classifying", "DirectReply", "ToolInvocation"} =>
              /\ calls # <<>>
              /\ calls[1].fn = "check_moderation"
              /\ calls[1].res = "unflagged"
        /\ (calls # <<>> /\ calls[1].fn = "check_moderation"
                /\ calls[1].res = "flagged") =>
              (Len(calls) = 1 /\ pc = "AwaitingInput")

\* an utterance that passed moderation has been classified into a tool call
C7_Witness ==
    /\ ChatbotRuns
    /\ pc = "ToolInvocation"
    /\ user_input # <<>>
    /\ Len(calls) = 2
    /\ calls[1].res = "unflagged"
    /\ ~calls[1].failed
    /\ calls[2].fn = "chat.completions.create"

\* the words that end the session of the running script
SessionExitWords ==
    IF ChatbotRuns THEN {"exit"} ELSE {"exit", "quit"}

\* C8: no step crashes the session; a step that reports an error returns to
\* AwaitingInput; the session terminates only in a step that reads an exit
\* command.
C8_NoErrorIsFatal ==
    [][ /\ pc' # "Crashed"
        /\ (Len(printed') = Len(printed) + 1
                /\ printed'[Len(printed')].kind = "error") =>
              pc' = "AwaitingInput"
        /\ (pc' = "Terminated" /\ pc # "Terminated") =>
              /\ pc = "AwaitingInput"
              /\ Str(lower(user_input')) \in SessionExitWords
        /\ pc = "Terminated" => pc' = "Terminated"
      ]_vars

\* a tool turn raised, the error was printed and the loop awaits input again
C8_Witness ==
    /\ ChatbotRuns
    /\ pc = "AwaitingInput"
    /\ HasFunctionCall(message)
    /\ printed # <<>>
    /\ printed[Len(printed)].kind = "error"

\* C9: the transcript starts with the system message, which is its only
\* system message, and every step leaves the earlier transcript a prefix of
\* the later one.
C9_TranscriptAppendOnly ==
    [][ ChatbotRuns =>
          /\ context_messages[1] = [role |-> "system",
                                    content |-> SystemPrompt]
          /\ IsPrefix(context_messages, context_messages')
          /\ \A i \in 2 .. Len(context_messages') :
                context_messages'[i].role \in {"user", "assistant"}
      ]_vars

\* two turns have appended a user message, an assistant message and a
\* second user message
C9_Witness ==
    /\ Len(context_messages) = 4
    /\ context_messages[2].role = "user"
    /\ context_messages[3].role = "assistant"
    /\ context_messages[4].role = "user"

\* C10: every translate_text call whose provider request failed or returned
\* an empty translation, or whose input text failed validation, returned its
\* input text.
C10_TranslationFallback ==
    \A i \in DOMAIN calls :
        (calls[i].fn = "translate_text"
             /\ (calls[i].failed \/ ~Truthy(calls[i].arg))) =>
            calls[i].res = calls[i].arg

\* a request to the weather provider is in the call log of the turn
WeatherRequested ==
    \E j \in DOMAIN calls :
        calls[j].fn = "requests.get" /\ calls[j].arg = WeatherURL

\* C11: every get_weather call whose units are neither 'metric' nor
\* 'imperial' returned an error result, and the turn made no request to the
\* weather provider.
C11_InvalidUnitsRejected ==
    \A i \in DOMAIN calls :
        (calls[i].fn = "get_weather"
             /\ calls[i].arg.units \notin {"metric", "imperial"}) =>
            calls[i].res = "error" /\ ~WeatherRequested

\* the catalog entries a requested commodity name selects: by title case in
\* news_chatbot.py (line 282), by the name as it is in news_agent.py
\* (line 114)
CatalogNames(commodity) ==
    IF ChatbotRuns
    THEN { Str(available_commodities[k].name) :
               k \in { n \in DOMAIN available_commodities :
                           str_title(available_commodities[n].name)
                               = str_title(commodity) } }
    ELSE { Str(agent_available_commodities[k].name) :
               k \in { n \in DOMAIN agent_available_commodities :
                           agent_available_commodities[n].name = commodity } }

IsNotSupportedEntry(r, commodity) ==
    /\ r.name = Str(commodity)
    /\ "value" \in DOMAIN r
    /\ r.value = "Not supported"

CommodityCall(i) ==
    /\ calls[i].fn = "get_commodity_prices"
    /\ calls[i].arg # <<>>

\* C12: a get_commodity_prices call whose list names an unsupported
\* commodity did not raise, returned an entry for each supported name of the
\* list and a "Not supported" entry for each unsupported name.
C12_UnknownCommoditiesReported ==
    /\ pc # "Crashed"
    /\ \A i \in DOMAIN calls :
           CommodityCall(i) =>
               \A n \in DOMAIN calls[i].arg :
                   LET commodity == calls[i].arg[n]
                       res       == calls[i].res
                   IN  IF CatalogNames(commodity) = {}
                       THEN \E k \in DOMAIN res :
                                IsNotSupportedEntry(res[k], commodity)
                       ELSE (\E m \in DOMAIN calls[i].arg :
                                 CatalogNames(calls[i].arg[m]) = {}) =>
                                \E k \in DOMAIN res :
                                    res[k].name \in CatalogNames(commodity)

CommodityResult ==
    LET i == CHOOSE i \in DOMAIN calls : calls[i].fn = "get_commodity_prices"
    IN  calls[i].res

\* a result entry that carries a quote: the price dict of news_chatbot.py,
\* the "$..." text of news_agent.py
IsQuoteEntry(r) ==
    \/ "price" \in DOMAIN r
    \/ /\ "value" \in DOMAIN r
       /\ r.value \in { FormatPrice(q.close) :
                            q \in { x \in QuoteResponses : x.kind = "data" } }

\* a result entry that marks its symbol as failed
IsErrorEntry(r) ==
    /\ "value" \in DOMAIN r
    /\ r.value \in { "Error: " \o ProviderError,
                      "Error: single positional indexer is out-of-bounds" }

\* C13: in the result of a get_commodity_prices call, every symbol whose
\* quote request delivered data has its quote, whatever the requests of the
\* other symbols did, and every symbol whose quote request failed or
\* delivered no data has an entry with an error marker.
C13_PartialCommodityResults ==
    /\ pc # "Crashed"
    /\ \A j \in DOMAIN calls :
           calls[j].fn = "ticker.history" =>
               \E k \in DOMAIN CommodityResult :
                   /\ CommodityResult[k].name = calls[j].arg
                   /\ IF calls[j].res = "data"
                      THEN IsQuoteEntry(CommodityResult[k])
                      ELSE IsErrorEntry(CommodityResult[k])

\* C14: once a line equal to 'exit' or 'quit' in any letter case has been
\* read, the session is over and the turn has called nothing: no moderation,
\* no classification and no tool.
C14_ExitAndQuitEndSession ==
    (turns > 0 /\ Str(lower(user_input)) \in {"exit", "quit"}) =>
        pc = "Terminated" /\ calls = <<>>

\* the "Chatbot: ..." lines the current turn has printed
ChatbotLines == SelectSeq(printed, LAMBDA l : l.kind = "chatbot")

\* C15: between turns, when the turn just ended got a Chat Completion message
\* and displayed a chatbot reply (free-form content or a tool's reply),
\* last_response is the text of the last reply it displayed.
C15_LastResponseIsLatestReply ==
    (ChatbotRuns /\ pc = "AwaitingInput" /\ message # NoMessage
         /\ ChatbotLines # <<>>) =>
        last_response = ChatbotLines[Len(ChatbotLines)].text

\* the calls of the News Search adapter in a call log
NewsCalls(log) == SelectSeq(log, LAMBDA c : c.fn = "fetch_news")

\* the articles of a list, by url
Urls(list) == [i \in DOMAIN list |-> list[i].url]

\* C16: a step in which the News Search adapter is called leaves in the
\* cache the articles of the list the adapter returned (none when the adapter
\* failed), and every other step leaves the cache unchanged.
C16_CacheIsLatestFetch ==
    [][IF NewsCalls(calls) = <<>> /\ NewsCalls(calls') # <<>>
       THEN Urls(articles') = Urls(NewsCalls(calls')[1].res)
       ELSE articles' = articles]_vars

\* the message of the turn requests a tool outside the catalog, with
\* arguments that parse
UnknownToolRequest ==
    /\ ChatbotRuns
    /\ HasFunctionCall(message)
    /\ message.function_call.json_ok
    /\ message.function_call.name \notin ToolNames

AdapterNames ==
    ToolNames \cup { "summarize_article", "get_trending_topics",
                     "requests.get", "ticker.history" }

\* C17: a turn whose tool request names no catalog tool calls no provider
\* adapter, raises nothing, and every step of it leaves the cached article
\* list and last_response unchanged and ends in AwaitingInput.
C17_UnknownToolIgnored ==
    [][(UnknownToolRequest /\ pc = "ToolInvocation") =>
           /\ pc' = "AwaitingInput"
           /\ articles' = articles
           /\ last_response' = last_response
           /\ printed' = printed
           /\ \A i \in DOMAIN calls' : calls'[i].fn \notin AdapterNames]_vars

C17_Witness ==
    /\ UnknownToolRequest
    /\ pc = "AwaitingInput"
    /\ turns = 2
    /\ articles # <<>>
    /\ last_response # ""

WeatherApology(city) ==
    "Sorry, I couldn't fetch weather information for " \o city \o "."

\* C18: after a get_weather tool turn whose adapter call returned an error
\* result, the reply displayed is the apology for the city and last_response
\* holds it.
C18_WeatherErrorApology ==
    ChatbotRuns =>
        \A i \in DOMAIN calls :
            (calls[i].fn = "get_weather" /\ calls[i].res = "error") =>
                /\ ChatbotLines # <<>>
                /\ ChatbotLines[Len(ChatbotLines)].text
                       = WeatherApology(calls[i].arg.city)
                /\ last_response = WeatherApology(calls[i].arg.city)

\* the messages the current turn has appended to the transcript
NewMessages ==
    SubSeq(context_messages, messages_before + 1, Len(context_messages))

BuiltinWords == {"exit", "help", "trending"}

\* C19: the messages a turn has appended are at most one user message
\* followed by at most one assistant message; the user message is the
\* non-empty utterance of the turn, which is no built-in command and passed
\* the moderation check unflagged, and it is in the transcript when the turn
\* is classified; the assistant message is the free-form content of the
\* turn's Chat Completion message, which passed the moderation check
\* unflagged; nothing else, and so no reply a tool turn renders, is appended.
C19_TranscriptGrowth ==
    ChatbotRuns =>
        /\ Len(NewMessages) <= 2
        /\ Cardinality({ i \in DOMAIN NewMessages :
                             NewMessages[i].role = "user" }) <= 1
        /\ Cardinality({ i \in DOMAIN NewMessages :
                             NewMessages[i].role = "assistant" }) <= 1
        /\ (pc = "Classifying" /\ user_input # <<>>) =>
               Len(NewMessages) = 1 /\ NewMessages[1].role = "user"
        /\ \A i \in DOMAIN NewMessages :
               \/ /\ NewMessages[i].role = "user"
                  /\ i = 1
                  /\ user_input # <<>>
                  /\ NewMessages[i].content = Str(user_input)
                  /\ Str(lower(user_input)) \notin BuiltinWords
                  /\ calls # <<>>
                  /\ calls[1].fn = "check_moderation"
                  /\ calls[1].res = "unflagged"
               \/ /\ NewMessages[i].role = "assistant"
                  /\ Truthy(message.content)
                  /\ NewMessages[i].content = message.content
                  /\ \E j \in DOMAIN calls :
                         /\ calls[j].fn = "check_moderation"
                         /\ calls[j].arg = message.content
                         /\ calls[j].res = "unflagged"

\* a turn that appended the utterance and the assistant content and then
\* raised in its tool branch
C19_Witness ==
    /\ ChatbotRuns
    /\ pc = "AwaitingInput"
    /\ Len(NewMessages) = 2
    /\ HasFunctionCall(message)
    /\ printed[Len(printed)].kind = "error"

====
